---- MODULE Spec2Model ----
(***************************************************************************)
(* Model of the API-log analytics pipeline (function.py, utils.py,         *)
(* config.py).  analyze_api_logs is a pure batch function: the state       *)
(* machine below walks through its body call by call, the input list       *)
(* being drawn by Init from bounded families of raw records.               *)
(*                                                                         *)
(* Units.  Instants are seconds since midnight of one fixed UTC day; an    *)
(* ISO-8601 text "....THH:MM:SSZ" is the tuple <<HH, MM, SS>>.  Values     *)
(* that the code rounds to 3 decimals are integers in thousandths, money   *)
(* is in micro-USD (every rate of config.py is a whole number of           *)
(* micro-USD, so round(x, 6) is exact).  Unrounded quotients are exact     *)
(* fractions <<num, den>>; the code computes them in IEEE doubles, which   *)
(* agree with the exact comparison for every count below 33 and for the    *)
(* 35-request scenarios used here.                                         *)
(***************************************************************************)
EXTENDS Integers, Sequences, FiniteSets, TLC

VARIABLES logs, pc, idx, valid_logs, summary, endpoint_stats,
          performance_issues, recommendations, hourly_distribution,
          top_users_by_requests, cost_analysis, anomalies, result,
          sw_timestamps, sw_window_minutes, sw_left, sw_right,
          sw_window_start, sw_counts, sw_pc

\* The locals of one call of sliding_window_counts.
scanVars == <<sw_timestamps, sw_window_minutes, sw_left, sw_right,
              sw_window_start, sw_counts, sw_pc>>

vars == <<logs, pc, idx, valid_logs, summary, endpoint_stats,
          performance_issues, recommendations, hourly_distribution,
          top_users_by_requests, cost_analysis, anomalies, result, scanVars>>

-----------------------------------------------------------------------------
(* config.py *)

SEVERITY_THRESHOLDS_MS == [medium |-> 500, high |-> 1000, critical |-> 2000]

ERROR_RATE_THRESHOLDS_PERCENT == [medium |-> 5, high |-> 10, critical |-> 15]

COST_PER_REQUEST_USD == 100

COST_PER_MS_EXECUTION_USD == 2

\* float("inf") / math.inf: above every integer of the model.
Inf == 2147483647

MEMORY_COST_BRACKETS ==
    << <<0, 1024, 10>>, <<1024, 10 * 1024, 50>>, <<10 * 1024, Inf, 100>> >>

REQUEST_SPIKE_WINDOW_MINUTES == 5

REQUEST_SPIKE_MULTIPLIER == 3

RESPONSE_DEGRADATION_MULTIPLIER == 2

ERROR_CLUSTER_WINDOW_MINUTES == 5

ERROR_CLUSTER_THRESHOLD == 10

\* 0.5, as a fraction.
UNUSUAL_USER_SHARE_THRESHOLD == <<1, 2>>

DEFAULT_SLOW_ENDPOINT_THRESHOLD_MS == SEVERITY_THRESHOLDS_MS.medium

REQUIRED_FIELDS ==
    << "timestamp", "endpoint", "method", "response_time_ms", "status_code",
       "user_id", "request_size_bytes", "response_size_bytes" >>

-----------------------------------------------------------------------------
(* Python values *)

\* Optional[T]: None is the empty tuple, a present scalar v is <<v>>.
None == << >>

Some(v) == <<v>>

Range(s) == { s[i] : i \in DOMAIN s }

Min(a, b) == IF a <= b THEN a ELSE b

Max(a, b) == IF a >= b THEN a ELSE b

\* sum(s[lo..hi]), by halves.
RECURSIVE SumRange(_, _, _)
SumRange(s, lo, hi) ==
    IF lo > hi THEN 0
    ELSE IF lo = hi THEN s[lo]
    ELSE SumRange(s, lo, (lo + hi) \div 2) + SumRange(s, (lo + hi) \div 2 + 1, hi)

\* Exact fractions <<num, den>>, den > 0, for the code's float quotients.
FGt(a, b) == a[1] * b[2] > b[1] * a[2]

\* Mutant: the factor is dropped.
FMul_Ignored(k, a) == a

FMul(k, a) == <<k * a[1], a[2]>>

FDiv(a, b) == <<a[1] * b[2], a[2] * b[1]>>

FMax(a, b) == IF FGt(b, a) THEN b ELSE a

\* int(x) of a non-negative float.
FInt(a) == a[1] \div a[2]

\* round(n / d, 0), ties to even, n >= 0 and d > 0.
RoundDiv(n, d) ==
    LET q == n \div d
        r == n % d
    IN  IF 2 * r < d THEN q
        ELSE IF 2 * r > d THEN q + 1
        ELSE IF q % 2 = 0 THEN q ELSE q + 1

\* round(n / d, 3), in thousandths.
Round3(n, d) == RoundDiv(n * 1000, d)

\* datetime.isoformat() with "+00:00" replaced by "Z".
isoformat(t) == << t \div 3600, (t % 3600) \div 60, t % 60 >>

\* datetime.strftime('%H:%M'); an instant before midnight wraps to the
\* previous day's clock.
strftime_HM(t) == << (t % 86400) \div 3600, ((t % 86400) % 3600) \div 60 >>

\* str.upper() on the method names of the model.
upper(s) ==
    CASE s = "get" -> "GET"
      [] s = "post" -> "POST"
      [] OTHER -> s

\* Lexicographic order of the endpoint names of the model.
EndpointNames == << "/api/a", "/api/b", "/api/c" >>

StrRank(s) == CHOOSE i \in DOMAIN EndpointNames : EndpointNames[i] = s

-----------------------------------------------------------------------------
(* utils.py *)

\* Mutant: a lenient parser that takes any three numbers.
parse_timestamp_Lenient(ts) ==
    IF Len(ts) = 3 THEN Some(ts[1] * 3600 + ts[2] * 60 + ts[3]) ELSE None

\* datetime.fromisoformat raises on a text that is not a date-time; the
\* except clause turns that into None.
parse_timestamp(ts) ==
    IF /\ Len(ts) = 3
       /\ ts[1] \in 0..23
       /\ ts[2] \in 0..59
       /\ ts[3] \in 0..59
    THEN Some(ts[1] * 3600 + ts[2] * 60 + ts[3])
    ELSE None

is_error_status(code) == 400 <= code /\ code <= 599

\* Mutant: the sign test is missing.
safe_int_Unsigned(v) == Some(v)

safe_int(v) == IF v >= 0 THEN Some(v) ELSE None

safe_str(v) == IF v # "" THEN Some(v) ELSE None

validate_log_entry(entry) ==
    IF \E i \in DOMAIN REQUIRED_FIELDS : REQUIRED_FIELDS[i] \notin DOMAIN entry
    THEN None
    ELSE
      LET ts == parse_timestamp(entry.timestamp)
          endpoint == safe_str(entry.endpoint)
          method == safe_str(entry.method)
          rt == safe_int(entry.response_time_ms)
          status == safe_int(entry.status_code)
          user == safe_str(entry.user_id)
          req_bytes == safe_int(entry.request_size_bytes)
          resp_bytes == safe_int(entry.response_size_bytes)
      IN  IF \/ ts = None \/ endpoint = None \/ method = None \/ rt = None
             \/ status = None \/ user = None \/ req_bytes = None
             \/ resp_bytes = None
          THEN None
          ELSE Some([ timestamp |-> ts[1],
                      endpoint |-> endpoint[1],
                      method |-> upper(method[1]),
                      response_time_ms |-> rt[1],
                      status_code |-> status[1],
                      user_id |-> user[1],
                      request_size_bytes |-> req_bytes[1],
                      response_size_bytes |-> resp_bytes[1] ])

\* The elements of a set of indices, in ascending order.
Ascending(S) ==
    [k \in 1..Cardinality(S) |->
        CHOOSE i \in S : Cardinality({ j \in S : j <= i }) = k]

\* Mutant: an unstable sort that puts a later item before its equals.
SortedBy_Unstable(s, keys) ==
    LET n == Len(s)
        pos == [i \in 1..n |->
                  Cardinality({ j \in 1..n :
                      keys[j] < keys[i] \/ (keys[j] = keys[i] /\ j >= i) })]
    IN  [k \in 1..n |-> s[CHOOSE i \in 1..n : pos[i] = k]]

\* list.sort / sorted with a key, keys[i] being the key of s[i]: ascending
\* and stable, s[i] going to the place that counts the items with a smaller
\* key and the earlier items with the same key.
SortedBy(s, keys) ==
    LET n == Len(s)
        pos == [i \in 1..n |->
                  Cardinality({ j \in 1..n :
                      keys[j] < keys[i] \/ (keys[j] = keys[i] /\ j <= i) })]
    IN  [k \in 1..n |-> s[CHOOSE i \in 1..n : pos[i] = k]]

\* collections.Counter(keys) as the list of its (key, count) items in
\* insertion order: a dict keeps the order in which keys were first inserted.
CounterOf(keys) ==
    LET firsts == Ascending({ i \in DOMAIN keys :
                                \A j \in 1..(i - 1) : keys[j] # keys[i] })
    IN  [k \in DOMAIN firsts |->
            << keys[firsts[k]],
               Cardinality({ j \in DOMAIN keys : keys[j] = keys[firsts[k]] }) >>]

\* Counter.most_common(n): sorted(items, key=count, reverse=True)[:n]; the
\* sort is stable, so equal counts stay in insertion order.
most_common(c, n) ==
    SubSeq(SortedBy(c, [i \in DOMAIN c |-> -c[i][2]]), 1, Min(n, Len(c)))

\* The entry that the loop of aggregate_by_endpoint builds for endpoint ep:
\* created by setdefault with count 0, sum 0, slowest -inf, fastest inf, and
\* updated once per request of ep.
AggregateOf(vlogs, ep) ==
    LET mine == SelectSeq(vlogs, LAMBDA l : l.endpoint = ep)
        rts == [i \in DOMAIN mine |-> mine[i].response_time_ms]
    IN  [ endpoint |-> ep,
          count |-> Len(mine),
          sum_rt |-> SumRange(rts, 1, Len(rts)),
          slowest |-> Max(-Inf, IF rts = << >> THEN -Inf
                                ELSE CHOOSE x \in Range(rts) : \A y \in Range(rts) : x >= y),
          fastest |-> Min(Inf, IF rts = << >> THEN Inf
                               ELSE CHOOSE x \in Range(rts) : \A y \in Range(rts) : x <= y),
          error_count |-> Cardinality({ i \in DOMAIN mine : is_error_status(mine[i].status_code) }),
          status_counter |-> CounterOf([i \in DOMAIN mine |-> mine[i].status_code]) ]

\* Mutant: every request opens an entry of its own instead of updating the
\* entry of its endpoint.
aggregate_by_endpoint_NoMerge(vlogs) ==
    [i \in DOMAIN vlogs |-> AggregateOf(<<vlogs[i]>>, vlogs[i].endpoint)]

\* The dict stats as the list of its values in insertion order, each
\* carrying its key.
aggregate_by_endpoint(vlogs) ==
    LET eps == CounterOf([i \in DOMAIN vlogs |-> vlogs[i].endpoint])
    IN  [i \in DOMAIN eps |-> AggregateOf(vlogs, eps[i][1])]

\* Mutant: the medium threshold is inclusive.
severity_for_response_time_Inclusive(avg_ms, thresholds) ==
    IF FGt(avg_ms, <<thresholds.critical, 1>>) THEN Some("critical")
    ELSE IF FGt(avg_ms, <<thresholds.high, 1>>) THEN Some("high")
    ELSE IF ~FGt(<<thresholds.medium, 1>>, avg_ms) THEN Some("medium")
    ELSE None

\* avg_ms is a fraction, the thresholds are integers.
severity_for_response_time(avg_ms, thresholds) ==
    IF FGt(avg_ms, <<thresholds.critical, 1>>) THEN Some("critical")
    ELSE IF FGt(avg_ms, <<thresholds.high, 1>>) THEN Some("high")
    ELSE IF FGt(avg_ms, <<thresholds.medium, 1>>) THEN Some("medium")
    ELSE None

severity_for_error_rate(err_rate_percent, thresholds) ==
    IF FGt(err_rate_percent, <<thresholds.critical, 1>>) THEN Some("critical")
    ELSE IF FGt(err_rate_percent, <<thresholds.high, 1>>) THEN Some("high")
    ELSE IF FGt(err_rate_percent, <<thresholds.medium, 1>>) THEN Some("medium")
    ELSE None

\* "HH:00" as the hour HH.
hourly_bucket(dt) == dt \div 3600

timedelta_minutes(m) == m * 60

\* Mutant: a request exactly one window behind is dropped from the window.
RECURSIVE AdvanceLeft_Exclusive(_, _, _)
AdvanceLeft_Exclusive(timestamps, left, window_start) ==
    IF timestamps[left] <= window_start
    THEN AdvanceLeft_Exclusive(timestamps, left + 1, window_start)
    ELSE left

\* The while loop: left advances while timestamps[left] < window_start.
RECURSIVE AdvanceLeft(_, _, _)
AdvanceLeft(timestamps, left, window_start) ==
    IF timestamps[left] < window_start
    THEN AdvanceLeft(timestamps, left + 1, window_start)
    ELSE left

\* The value of left after the iteration right of the for loop: left is
\* carried from one iteration to the next (indices are 1-based here, the
\* count right - left + 1 is the same either way).
RECURSIVE LeftAfter(_, _, _)
LeftAfter(timestamps, window_minutes, right) ==
    AdvanceLeft(timestamps,
                IF right = 1 THEN 1 ELSE LeftAfter(timestamps, window_minutes, right - 1),
                timestamps[right] - timedelta_minutes(window_minutes))

sliding_window_counts(timestamps, window_minutes) ==
    [right \in 1..Len(timestamps) |->
        << timestamps[right],
           right - LeftAfter(timestamps, window_minutes, right) + 1 >>]

-----------------------------------------------------------------------------
(* Python built-ins used by function.py *)

SeqSum(s) == SumRange(s, 1, Len(s))

RECURSIVE Flatten(_)
Flatten(ss) == IF ss = << >> THEN << >> ELSE ss[1] \o Flatten(Tail(ss))

MinOf(s) == CHOOSE x \in Range(s) : \A y \in Range(s) : x <= y

MaxOf(s) == CHOOSE x \in Range(s) : \A y \in Range(s) : x >= y

Field(vlogs, f) == [i \in DOMAIN vlogs |-> vlogs[i][f]]

\* Keys of a dict filled in one pass over keys, in insertion order.
KeysInOrder(keys) == LET c == CounterOf(keys) IN [i \in DOMAIN c |-> c[i][1]]

OfEndpoint(vlogs, ep) == SelectSeq(vlogs, LAMBDA l : l.endpoint = ep)

-----------------------------------------------------------------------------
(* function.py *)

_most_common_status(counter) ==
    IF counter = << >> THEN None ELSE Some(most_common(counter, 1)[1][1])

_calc_summary(vlogs) ==
    LET total == Len(vlogs) IN
    IF total = 0
    THEN [ total_requests |-> 0,
           time_range |-> [start |-> None, end |-> None],
           avg_response_time_ms |-> 0,
           error_rate_percentage |-> 0 ]
    ELSE
      LET timestamps == Field(vlogs, "timestamp")
          sum_rt == SeqSum(Field(vlogs, "response_time_ms"))
          errors == Len(SelectSeq(vlogs, LAMBDA l :
                        400 <= l.status_code /\ l.status_code <= 599))
      IN  [ total_requests |-> total,
            time_range |-> [ start |-> isoformat(MinOf(timestamps)),
                             end |-> isoformat(MaxOf(timestamps)) ],
            avg_response_time_ms |-> Round3(sum_rt, total),
            error_rate_percentage |-> Round3(errors * 100, total) ]

EndpointStat(s) ==
    [ endpoint |-> s.endpoint,
      request_count |-> s.count,
      avg_response_time_ms |-> IF s.count # 0 THEN Round3(s.sum_rt, s.count) ELSE 0,
      slowest_request_ms |-> IF s.slowest # -Inf THEN s.slowest ELSE 0,
      fastest_request_ms |-> IF s.fastest # Inf THEN s.fastest ELSE 0,
      error_count |-> s.error_count,
      most_common_status |-> _most_common_status(s.status_counter) ]

\* Mutant: the final sort by endpoint is missing.
_calc_endpoint_stats_Unsorted(vlogs) ==
    LET by_ep == aggregate_by_endpoint(vlogs)
    IN  [i \in DOMAIN by_ep |-> EndpointStat(by_ep[i])]

_calc_endpoint_stats(vlogs) ==
    LET by_ep == aggregate_by_endpoint(vlogs)
        stats == [i \in DOMAIN by_ep |-> EndpointStat(by_ep[i])]
    IN  SortedBy(stats, [i \in DOMAIN stats |-> StrRank(stats[i].endpoint)])

\* The unrounded (error_count / total * 100).
ErrRate(s) ==
    IF s.request_count # 0 THEN <<s.error_count * 100, s.request_count>>
    ELSE <<0, 1>>

\* One iteration of the loop of _detect_performance_issues.
IssuesOf(s) ==
    LET sev == severity_for_response_time(<<s.avg_response_time_ms, 1000>>,
                                          SEVERITY_THRESHOLDS_MS)
        err_rate == ErrRate(s)
        err_sev == severity_for_error_rate(err_rate, ERROR_RATE_THRESHOLDS_PERCENT)
    IN  (IF sev # None
         THEN << [ type |-> "slow_endpoint",
                   endpoint |-> s.endpoint,
                   avg_response_time_ms |-> s.avg_response_time_ms,
                   threshold_ms |-> DEFAULT_SLOW_ENDPOINT_THRESHOLD_MS,
                   severity |-> sev[1] ] >>
         ELSE << >>)
        \o
        (IF err_sev # None
         THEN << [ type |-> "high_error_rate",
                   endpoint |-> s.endpoint,
                   error_rate_percentage |-> Round3(err_rate[1], err_rate[2]),
                   severity |-> err_sev[1] ] >>
         ELSE << >>)

_detect_performance_issues(stats) ==
    Flatten([i \in DOMAIN stats |-> IssuesOf(stats[i])])

\* One iteration of the loop of _recommendations; a message is the tuple of
\* the values its f-string prints.
RecsOf(s) ==
    LET err_rate == ErrRate(s) IN
    (IF s.avg_response_time_ms > SEVERITY_THRESHOLDS_MS.medium * 1000
     THEN << [ text |-> "Investigate", endpoint |-> s.endpoint,
               avg |-> s.avg_response_time_ms,
               threshold |-> SEVERITY_THRESHOLDS_MS.medium ] >>
     ELSE << >>)
    \o
    (IF FGt(err_rate, <<ERROR_RATE_THRESHOLDS_PERCENT.medium, 1>>)
     THEN << [ text |-> "Alert", endpoint |-> s.endpoint,
               rate |-> Round3(err_rate[1], err_rate[2]) ] >>
     ELSE << >>)

_recommendations(summ, stats) ==
    Flatten([i \in DOMAIN stats |-> RecsOf(stats[i])])

_hourly_distribution(vlogs) ==
    LET dist == CounterOf([i \in DOMAIN vlogs |-> hourly_bucket(vlogs[i].timestamp)])
    IN  SortedBy(dist, [i \in DOMAIN dist |-> dist[i][1]])

_top_users(vlogs, top_n) ==
    LET c == most_common(CounterOf(Field(vlogs, "user_id")), top_n)
    IN  [i \in DOMAIN c |-> [user_id |-> c[i][1], request_count |-> c[i][2]]]

\* Mutant: the brackets are taken as low < bytes_count <= high.
RECURSIVE MemoryCostFrom_OpenLow(_, _)
MemoryCostFrom_OpenLow(brackets, bytes_count) ==
    IF brackets = << >> THEN 0
    ELSE IF brackets[1][1] < bytes_count /\ bytes_count <= brackets[1][2]
    THEN brackets[1][3]
    ELSE MemoryCostFrom_OpenLow(Tail(brackets), bytes_count)

\* Option A: cost estimation.  The for loop returns at the first bracket
\* with low <= bytes_count < high, 0.0 when there is none.
RECURSIVE MemoryCostFrom(_, _)
MemoryCostFrom(brackets, bytes_count) ==
    IF brackets = << >> THEN 0
    ELSE IF brackets[1][1] <= bytes_count /\ bytes_count < brackets[1][2]
    THEN brackets[1][3]
    ELSE MemoryCostFrom(Tail(brackets), bytes_count)

_memory_cost(bytes_count) == MemoryCostFrom(MEMORY_COST_BRACKETS, bytes_count)

\* per_req + exec_cost + mem_cost of one request.
RequestCost(l) ==
    COST_PER_REQUEST_USD + l.response_time_ms * COST_PER_MS_EXECUTION_USD
    + _memory_cost(l.response_size_bytes)

CostOfEndpoint(vlogs, ep) ==
    LET mine == OfEndpoint(vlogs, ep)
        count == Len(mine)
        total_cost == SeqSum([i \in DOMAIN mine |-> RequestCost(mine[i])])
    IN  [ endpoint |-> ep,
          total_cost |-> total_cost,
          cost_per_request |-> IF count # 0 THEN RoundDiv(total_cost, count) ELSE 0 ]

\* (avg - medium) * rate * count of one endpoint, in thousandths of micro-USD.
SavingsOf(s) ==
    IF s.avg_response_time_ms > SEVERITY_THRESHOLDS_MS.medium * 1000
    THEN (s.avg_response_time_ms - SEVERITY_THRESHOLDS_MS.medium * 1000)
         * COST_PER_MS_EXECUTION_USD * s.request_count
    ELSE 0

_cost_analysis(vlogs, stats) ==
    LET total_request_cost == Len(vlogs) * COST_PER_REQUEST_USD
        total_execution_cost ==
            SeqSum([i \in DOMAIN vlogs |->
                       vlogs[i].response_time_ms * COST_PER_MS_EXECUTION_USD])
        total_memory_cost ==
            SeqSum([i \in DOMAIN vlogs |-> _memory_cost(vlogs[i].response_size_bytes)])
        eps == KeysInOrder(Field(vlogs, "endpoint"))
        sorted_eps == SortedBy(eps, [i \in DOMAIN eps |-> StrRank(eps[i])])
        total_cost == total_request_cost + total_execution_cost + total_memory_cost
        potential_savings == SeqSum([i \in DOMAIN stats |-> SavingsOf(stats[i])])
    IN  [ total_cost_usd |-> total_cost,
          cost_breakdown |-> [ request_costs |-> total_request_cost,
                               execution_costs |-> total_execution_cost,
                               memory_costs |-> total_memory_cost ],
          cost_by_endpoint |->
              [i \in DOMAIN sorted_eps |-> CostOfEndpoint(vlogs, sorted_eps[i])],
          optimization_potential_usd |-> RoundDiv(potential_savings, 1000) ]

\* Option B: anomaly detection.
\* Mutant: the last item that passes the test is the one reported.
FirstHit_Last(hits) ==
    IF hits = {} THEN None
    ELSE Some(CHOOSE i \in hits : \A j \in hits : i >= j)

\* The first item of counts that passes the test, if any (the loop breaks
\* after its first append).
FirstHit(hits) ==
    IF hits = {} THEN None
    ELSE Some(CHOOSE i \in hits : \A j \in hits : i <= j)

\* Mutant: a count equal to the threshold is a spike.
SpikeOf_Inclusive(vlogs, ep) ==
    LET mine == OfEndpoint(vlogs, ep)
        unsorted == Field(mine, "timestamp")
        ts_list == SortedBy(unsorted, unsorted)
        minutes == (MaxOf(ts_list) - MinOf(ts_list)) \div 60
        duration_minutes == Max(1, IF minutes # 0 THEN minutes ELSE 1)
        windows == FMax(<<1, 1>>, <<duration_minutes, REQUEST_SPIKE_WINDOW_MINUTES>>)
        normal_rate == FDiv(<<Len(ts_list), 1>>, windows)
        counts == sliding_window_counts(ts_list, REQUEST_SPIKE_WINDOW_MINUTES)
        hit == FirstHit({ i \in DOMAIN counts :
                    /\ ~FGt(FMul(REQUEST_SPIKE_MULTIPLIER, normal_rate), <<counts[i][2], 1>>)
                    /\ counts[i][2] >= 1 })
    IN  IF hit = None THEN << >>
        ELSE LET t == counts[hit[1]][1]
                 count == counts[hit[1]][2]
             IN  << [ type |-> "request_spike",
                      endpoint |-> ep,
                      timestamp |-> isoformat(t),
                      normal_rate |-> FInt(normal_rate),
                      actual_rate |-> count,
                      severity |->
                          IF FGt(<<count, 1>>,
                                 FMul(2 * REQUEST_SPIKE_MULTIPLIER, normal_rate))
                          THEN "high" ELSE "medium" ] >>

\* Body of the request-spike loop for one endpoint.
SpikeOf(vlogs, ep) ==
    LET mine == OfEndpoint(vlogs, ep)
        unsorted == Field(mine, "timestamp")
        ts_list == SortedBy(unsorted, unsorted)
        minutes == (MaxOf(ts_list) - MinOf(ts_list)) \div 60
        duration_minutes == Max(1, IF minutes # 0 THEN minutes ELSE 1)
        windows == FMax(<<1, 1>>, <<duration_minutes, REQUEST_SPIKE_WINDOW_MINUTES>>)
        normal_rate == FDiv(<<Len(ts_list), 1>>, windows)
        counts == sliding_window_counts(ts_list, REQUEST_SPIKE_WINDOW_MINUTES)
        hit == FirstHit({ i \in DOMAIN counts :
                    /\ FGt(<<counts[i][2], 1>>, FMul(REQUEST_SPIKE_MULTIPLIER, normal_rate))
                    /\ counts[i][2] >= 1 })
    IN  IF hit = None THEN << >>
        ELSE LET t == counts[hit[1]][1]
                 count == counts[hit[1]][2]
             IN  << [ type |-> "request_spike",
                      endpoint |-> ep,
                      timestamp |-> isoformat(t),
                      normal_rate |-> FInt(normal_rate),
                      actual_rate |-> count,
                      severity |->
                          IF FGt(<<count, 1>>,
                                 FMul(2 * REQUEST_SPIKE_MULTIPLIER, normal_rate))
                          THEN "high" ELSE "medium" ] >>

\* Mutant: the recent mean is not compared with the medium threshold.
DegradationOf_NoFloor(vlogs, ep) ==
    LET mine == OfEndpoint(vlogs, ep)
        sorted_logs == SortedBy(mine, Field(mine, "timestamp"))
        n == Len(sorted_logs)
        recent == SubSeq(sorted_logs, Max(0, (n * 9) \div 10) + 1, n)
        recent_avg == <<SeqSum(Field(recent, "response_time_ms")), Len(recent)>>
        overall_avg == <<SeqSum(Field(sorted_logs, "response_time_ms")), n>>
    IN  IF n < 5 THEN << >>
        ELSE IF FGt(recent_avg, FMul(RESPONSE_DEGRADATION_MULTIPLIER, overall_avg))
        THEN << [ type |-> "response_time_degradation",
                  endpoint |-> ep,
                  recent_avg_ms |-> Round3(recent_avg[1], recent_avg[2]),
                  overall_avg_ms |-> Round3(overall_avg[1], overall_avg[2]),
                  severity |->
                      IF FGt(recent_avg,
                             FMul(RESPONSE_DEGRADATION_MULTIPLIER * 3, <<overall_avg[1], overall_avg[2] * 2>>))
                      THEN "high" ELSE "medium" ] >>
        ELSE << >>

\* Body of the response-time-degradation loop for one endpoint.
DegradationOf(vlogs, ep) ==
    LET mine == OfEndpoint(vlogs, ep)
        sorted_logs == SortedBy(mine, Field(mine, "timestamp"))
        n == Len(sorted_logs)
        recent == SubSeq(sorted_logs, Max(0, (n * 9) \div 10) + 1, n)
        recent_avg == <<SeqSum(Field(recent, "response_time_ms")), Len(recent)>>
        overall_avg == <<SeqSum(Field(sorted_logs, "response_time_ms")), n>>
    IN  IF n < 5 THEN << >>
        ELSE IF /\ FGt(recent_avg, FMul(RESPONSE_DEGRADATION_MULTIPLIER, overall_avg))
                /\ FGt(recent_avg, <<SEVERITY_THRESHOLDS_MS.medium, 1>>)
        THEN << [ type |-> "response_time_degradation",
                  endpoint |-> ep,
                  recent_avg_ms |-> Round3(recent_avg[1], recent_avg[2]),
                  overall_avg_ms |-> Round3(overall_avg[1], overall_avg[2]),
                  severity |->
                      \* x * 2.0 * 1.5 is 3 x
                      IF FGt(recent_avg,
                             FMul(RESPONSE_DEGRADATION_MULTIPLIER * 3, <<overall_avg[1], overall_avg[2] * 2>>))
                      THEN "high" ELSE "medium" ] >>
        ELSE << >>

\* Body of the error-cluster loop for one endpoint.
ClusterOf(vlogs, ep) ==
    LET mine == SelectSeq(OfEndpoint(vlogs, ep), LAMBDA l :
                    400 <= l.status_code /\ l.status_code <= 599)
        unsorted == Field(mine, "timestamp")
        ts_list == SortedBy(unsorted, unsorted)
        counts == sliding_window_counts(ts_list, ERROR_CLUSTER_WINDOW_MINUTES)
        hit == FirstHit({ i \in DOMAIN counts : counts[i][2] >= ERROR_CLUSTER_THRESHOLD })
    IN  IF hit = None THEN << >>
        ELSE LET t == counts[hit[1]][1]
                 count == counts[hit[1]][2]
             IN  << [ type |-> "error_cluster",
                      endpoint |-> ep,
                      time_window |->
                          << strftime_HM(t - timedelta_minutes(ERROR_CLUSTER_WINDOW_MINUTES)),
                             strftime_HM(t) >>,
                      error_count |-> count,
                      severity |-> IF count >= ERROR_CLUSTER_THRESHOLD * 2
                                   THEN "critical" ELSE "high" ] >>

\* Mutant: the share test is >= instead of >.
UnusualUser_Inclusive(vlogs) ==
    LET total == Len(vlogs)
        user_counts == CounterOf(Field(vlogs, "user_id"))
    IN  IF total > 0
        THEN LET top == most_common(user_counts, 1)[1]
                 share == <<top[2], total>>
             IN  IF ~FGt(UNUSUAL_USER_SHARE_THRESHOLD, share)
                 THEN << [ type |-> "unusual_user_behavior",
                           user_id |-> top[1],
                           share_percentage |-> Round3(top[2] * 100, total),
                           severity |-> IF FGt(share, <<7, 10>>)
                                        THEN "high" ELSE "medium" ] >>
                 ELSE << >>
        ELSE << >>

\* The unusual-user block.
UnusualUser(vlogs) ==
    LET total == Len(vlogs)
        user_counts == CounterOf(Field(vlogs, "user_id"))
    IN  IF total > 0
        THEN LET top == most_common(user_counts, 1)[1]
                 user_id == top[1]
                 cnt == top[2]
                 share == <<cnt, total>>
             IN  IF FGt(share, UNUSUAL_USER_SHARE_THRESHOLD)
                 THEN << [ type |-> "unusual_user_behavior",
                           user_id |-> user_id,
                           share_percentage |-> Round3(cnt * 100, total),
                           severity |-> IF FGt(share, <<7, 10>>)
                                        THEN "high" ELSE "medium" ] >>
                 ELSE << >>
        ELSE << >>

_anomalies(vlogs, stats) ==
    IF vlogs = << >> THEN << >>
    ELSE
      LET eps == KeysInOrder(Field(vlogs, "endpoint"))
          errs == SelectSeq(vlogs, LAMBDA l :
                      400 <= l.status_code /\ l.status_code <= 599)
          err_eps == KeysInOrder(Field(errs, "endpoint"))
      IN  Flatten([i \in DOMAIN eps |-> SpikeOf(vlogs, eps[i])])
          \o Flatten([i \in DOMAIN eps |-> DegradationOf(vlogs, eps[i])])
          \o Flatten([i \in DOMAIN err_eps |-> ClusterOf(vlogs, err_eps[i])])
          \o UnusualUser(vlogs)

\* The validation loop of analyze_api_logs.
ValidLogs(ls) ==
    LET kept == SelectSeq(ls, LAMBDA entry : validate_log_entry(entry) # None)
    IN  [i \in DOMAIN kept |-> validate_log_entry(kept[i])[1]]

analyze_api_logs(ls) ==
    LET vl == ValidLogs(ls)
        summ == _calc_summary(vl)
        stats == _calc_endpoint_stats(vl)
    IN  [ summary |-> summ,
          endpoint_stats |-> stats,
          performance_issues |-> _detect_performance_issues(stats),
          recommendations |-> _recommendations(summ, stats),
          hourly_distribution |-> _hourly_distribution(vl),
          top_users_by_requests |-> _top_users(vl, 5),
          cost_analysis |-> _cost_analysis(vl, stats),
          anomalies |-> _anomalies(vl, stats) ]

-----------------------------------------------------------------------------
(* Inputs *)

\* Longest input list of the general family.
MaxLogs == 3

\* Longest input list of the validation family.
MaxBadLogs == 2

\* A raw record as decoded from JSON.
Raw(ts, ep, m, rt, st, u, rq, rs) ==
    [ timestamp |-> ts, endpoint |-> ep, method |-> m, response_time_ms |-> rt,
      status_code |-> st, user_id |-> u, request_size_bytes |-> rq,
      response_size_bytes |-> rs ]

\* The record without one of its attributes.
Without(r, f) == [g \in (DOMAIN r) \ {f} |-> r[g]]

\* 10:00:00, the base instant of the test suite.
Base == 10 * 3600

SeqsUpTo(S, n) == UNION { [1..k -> S] : k \in 0..n }

Good1 == Raw(isoformat(Base), "/api/a", "get", 100, 200, "u1", 512, 0)

Good2 == Raw(isoformat(Base), "/api/a", "post", 600, 500, "u2", 512, 1023)

GenRecords ==
    { Good1, Good2,
      Raw(isoformat(Base + 60), "/api/b", "GET", 1200, 200, "u1", 0, 1024),
      Raw(isoformat(Base + 3600), "/api/b", "get", 2500, 404, "u2", 512, 10239),
      Raw(isoformat(Base + 3660), "/api/a", "get", 100, 500, "u1", 512, 10240),
      Without(Good1, "status_code"),
      [Good2 EXCEPT !.response_time_ms = -10] }

\* Every way the validation can fail on a record that is Good1 otherwise.
BadRecords ==
    { Without(Good1, REQUIRED_FIELDS[i]) : i \in DOMAIN REQUIRED_FIELDS }
    \cup { [Good1 EXCEPT !.timestamp = <<25, 0, 0>>],
           [Good1 EXCEPT !.timestamp = << >>],
           [Good1 EXCEPT !.response_time_ms = -10],
           [Good1 EXCEPT !.status_code = -1],
           [Good1 EXCEPT !.request_size_bytes = -512],
           [Good1 EXCEPT !.response_size_bytes = -2048],
           [Good1 EXCEPT !.endpoint = ""],
           [Good1 EXCEPT !.method = ""],
           [Good1 EXCEPT !.user_id = ""] }

\* A good record of endpoint ep at instant t with status st.
RecAt(ep, t, st) == Raw(isoformat(t), ep, "get", 100, st, "u1", 512, 2048)

\* Requests of one endpoint at one response time, the first k failing
\* (test_error_rate_severity_levels).
SeverityBatch == 20

RtPoints == << 100, 500, 501, 1000, 1001, 2000, 2001 >>

ErrPoints == << 0, 1, 1, 2, 2, 3, 4 >>

BatchOf(ep, p) ==
    [i \in 1..SeverityBatch |->
        [RecAt(ep, Base + i - 1, IF i <= ErrPoints[p] THEN 500 ELSE 200)
            EXCEPT !.response_time_ms = RtPoints[p]]]

SeverityLogs == { BatchOf("/api/b", q) \o BatchOf("/api/a", p) :
                    p \in DOMAIN RtPoints, q \in DOMAIN RtPoints }

\* Most errors at one instant of the error family.
MaxErrPerPoint == 5

\* Offsets around the 5-minute window: 0 and 300 are one window apart.
ErrOffsets == << 0, 1, 300, 301 >>

Repeat(r, n) == [i \in 1..n |-> r]

\* c[p] failing requests of /api/a at offset p, latest first, two successful
\* ones in between, and nb failing requests of /api/b.
ErrLogs(c, nb) ==
    Flatten([p \in DOMAIN ErrOffsets |->
        Repeat(RecAt("/api/a", Base + ErrOffsets[Len(ErrOffsets) + 1 - p], 500),
               c[Len(ErrOffsets) + 1 - p])])
    \o Repeat(RecAt("/api/a", Base + 150, 200), 2)
    \o Repeat(RecAt("/api/b", Base, 503), nb)

ErrorLogs == { ErrLogs(c, nb) :
                 c \in [DOMAIN ErrOffsets -> 0..MaxErrPerPoint],
                 nb \in {ERROR_CLUSTER_THRESHOLD - 1, ERROR_CLUSTER_THRESHOLD} }

\* Most failing requests of the dense error family.
MaxDenseErrors == 22

\* k failing requests of /api/a, g seconds apart, with alternating 4xx and
\* 5xx codes, in time order or latest first, then one successful request.
DenseErrLogsOf(k, g, reversed) ==
    LET at(i) == RecAt("/api/a", Base + g * (i - 1), IF i % 2 = 0 THEN 404 ELSE 500)
    IN  [i \in 1..k |-> IF reversed THEN at(k + 1 - i) ELSE at(i)]
        \o << RecAt("/api/a", Base, 200) >>

DenseErrLogs ==
    { DenseErrLogsOf(k, g, reversed) :
        k \in 0..MaxDenseErrors, g \in {0, 1, 10, 30, 60}, reversed \in BOOLEAN }

\* Largest gap, in seconds, between two requests of the burst.
MaxBurstGap == 4

\* 20 requests one minute apart, then 15 more from minute s on, g seconds
\* apart (spec 8).
BurstLogs(s, g) ==
    [i \in 1..20 |-> RecAt("/api/a", Base + 60 * (i - 1), 200)]
    \o [j \in 1..15 |-> RecAt("/api/a", Base + 60 * s + g * (j - 1), 200)]

SpikeLogs == { BurstLogs(s, g) : s \in {19, 20},
                                 g \in { x \in 0..MaxBurstGap : 14 * x < 60 } }

\* Most requests of the cluster of the spread family.
MaxCluster == 18

\* Whole minutes between the first request and the end of the cluster.
SpreadMinutes == {1, 5, 15, 16, 17, 30, 61, 121}

\* h requests of /api/a at the base instant, then k requests g seconds
\* apart the last of which comes m minutes and e seconds after the base
\* instant; optionally two requests of /api/b 61 minutes apart.
SpreadLogsOf(h, k, m, e, g, sparse) ==
    Repeat(RecAt("/api/a", Base, 200), h)
    \o [j \in 1..k |-> RecAt("/api/a", Base + 60 * m + e - g * (k - j), 200)]
    \o (IF sparse
        THEN << RecAt("/api/b", Base, 200), RecAt("/api/b", Base + 61 * 60, 200) >>
        ELSE << >>)

SpreadLogs ==
    { SpreadLogsOf(h, k, m, e, g, sparse) :
        h \in {1, 2}, k \in 0..MaxCluster, m \in SpreadMinutes,
        e \in {0, 59}, g \in {0, 20}, sparse \in BOOLEAN }

\* Five requests of one endpoint: distinct or partly equal instants, each
\* request fast or slow, two status codes equally frequent.
DegradeInstants == { <<0, 60, 120, 180, 240>>, <<0, 0, 60, 60, 120>> }

DegradeStatus == << 500, 500, 200, 200, 404 >>

DegradeLogs ==
    { [k \in 1..5 |->
          [RecAt("/api/a", Base + t[k], DegradeStatus[k])
              EXCEPT !.response_time_ms = rt[k]]] :
        t \in DegradeInstants, rt \in [1..5 -> {100, 5000}] }

\* Longest free-form list of the user family.
MaxUserLogs == 4

\* Largest number of requests of the dominant user in the user family.
MaxDominant == 8

\* Good1 issued by user u.
ByUser(u) == [Good1 EXCEPT !.user_id = u]

FewUsers == {"u1", "u2", "u3"}

ManyUsers == {"u1", "u2", "u3", "u4", "u5", "u6"}

\* All orders of first appearance of six users, then up to one repeat.
SixUserSeqs ==
    { p \o x :
        p \in { f \in [1..Cardinality(ManyUsers) -> ManyUsers] :
                   \A i, j \in DOMAIN f : i # j => f[i] # f[j] },
        x \in SeqsUpTo(FewUsers, 1) }

\* a requests of u1 and b requests of u2, u1 first or u2 first.
DominantSeqs ==
    { [i \in 1..(a + b) |-> IF i <= a THEN "u1" ELSE "u2"] : a \in 0..MaxDominant, b \in 0..3 }
    \cup
    { [i \in 1..(a + b) |-> IF i <= b THEN "u2" ELSE "u1"] : a \in 0..MaxDominant, b \in 0..3 }

UserSeqs == SeqsUpTo(FewUsers, MaxUserLogs) \cup SixUserSeqs \cup DominantSeqs

\* Requests of one endpoint, one per minute, all at response time a but
\* the one at time position slow (the last, one of the two before it, or
\* none), which takes b; listed in time order or
\* in reverse; optionally followed in time by four slow requests of a
\* second endpoint.
TrendSizes == {4, 5, 6, 10, 11}

TrendBase == {0, 100, 300}

TrendSlow == {500, 501, 600, 601, 800, 801, 1800, 1801}

TrendLogsOf(n, a, b, slow, reversed, others) ==
    LET at(k) == Raw(isoformat(Base + 60 * (k - 1)), "/api/a", "GET",
                     IF k = slow THEN b ELSE a, 200, "u1", 512, 2048)
        mine == [i \in 1..n |-> IF reversed THEN at(n + 1 - i) ELSE at(i)]
        rest == [j \in 1..others |->
                    Raw(isoformat(Base + 60 * (n + j)), "/api/b", "GET",
                        5000, 200, "u2", 512, 2048)]
    IN  mine \o rest

TrendLogs ==
    { TrendLogsOf(n, a, b, IF back < 0 THEN 0 ELSE n - back, reversed, others) :
        n \in TrendSizes, a \in TrendBase, b \in TrendSlow,
        back \in -1..2, reversed \in BOOLEAN, others \in {0, 4} }

-----------------------------------------------------------------------------
(* analyze_api_logs as a state machine: one step per iteration of the       *)
(* validation loop, then one step per call of its body.                     *)

\* No call of sliding_window_counts is being traced.
ScanIdle ==
    /\ sw_timestamps = << >>
    /\ sw_window_minutes = 0
    /\ sw_left = 1
    /\ sw_right = 1
    /\ sw_window_start = 0
    /\ sw_counts = << >>
    /\ sw_pc = "idle"

Start(ls) ==
    /\ ScanIdle
    /\ logs = ls
    /\ pc = "validate"
    /\ idx = 1
    /\ valid_logs = << >>
    /\ summary = None
    /\ endpoint_stats = << >>
    /\ performance_issues = << >>
    /\ recommendations = << >>
    /\ hourly_distribution = << >>
    /\ top_users_by_requests = << >>
    /\ cost_analysis = None
    /\ anomalies = << >>
    /\ result = None

Init == \E ls \in SeqsUpTo(GenRecords, MaxLogs) : Start(ls)

InitValidate == \E ls \in SeqsUpTo(BadRecords \cup {Good1, Good2}, MaxBadLogs) : Start(ls)

InitOrder == \E ls \in SeqsUpTo(GenRecords, MaxLogs) \cup DegradeLogs : Start(ls)

InitSeverity == \E ls \in SeverityLogs : Start(ls)

InitErrors == \E ls \in ErrorLogs : Start(ls)

InitSpike == \E ls \in SpikeLogs : Start(ls)

InitUsers == \E us \in UserSeqs : Start([i \in DOMAIN us |-> ByUser(us[i])])

InitTrend == \E ls \in TrendLogs : Start(ls)

InitDense == \E ls \in DenseErrLogs : Start(ls)

InitSpread == \E ls \in SpreadLogs : Start(ls)

\* for entry in logs or []: v = validate_log_entry(entry); if v: append
Validate ==
    /\ pc = "validate"
    /\ idx <= Len(logs)
    /\ valid_logs' = valid_logs \o validate_log_entry(logs[idx])
    /\ idx' = idx + 1
    /\ UNCHANGED scanVars
    /\ UNCHANGED <<logs, pc, summary, endpoint_stats, performance_issues,
                   recommendations, hourly_distribution, top_users_by_requests,
                   cost_analysis, anomalies, result>>

ValidateDone ==
    /\ pc = "validate"
    /\ idx > Len(logs)
    /\ pc' = "summary"
    /\ UNCHANGED scanVars
    /\ UNCHANGED <<logs, idx, valid_logs, summary, endpoint_stats,
                   performance_issues, recommendations, hourly_distribution,
                   top_users_by_requests, cost_analysis, anomalies, result>>

CalcSummary ==
    /\ pc = "summary"
    /\ summary' = _calc_summary(valid_logs)
    /\ pc' = "endpoint_stats"
    /\ UNCHANGED scanVars
    /\ UNCHANGED <<logs, idx, valid_logs, endpoint_stats, performance_issues,
                   recommendations, hourly_distribution, top_users_by_requests,
                   cost_analysis, anomalies, result>>

CalcEndpointStats ==
    /\ pc = "endpoint_stats"
    /\ endpoint_stats' = _calc_endpoint_stats(valid_logs)
    /\ pc' = "performance_issues"
    /\ UNCHANGED scanVars
    /\ UNCHANGED <<logs, idx, valid_logs, summary, performance_issues,
                   recommendations, hourly_distribution, top_users_by_requests,
                   cost_analysis, anomalies, result>>

DetectPerformanceIssues ==
    /\ pc = "performance_issues"
    /\ performance_issues' = _detect_performance_issues(endpoint_stats)
    /\ pc' = "recommendations"
    /\ UNCHANGED scanVars
    /\ UNCHANGED <<logs, idx, valid_logs, summary, endpoint_stats,
                   recommendations, hourly_distribution, top_users_by_requests,
                   cost_analysis, anomalies, result>>

Recommendations ==
    /\ pc = "recommendations"
    /\ recommendations' = _recommendations(summary, endpoint_stats)
    /\ pc' = "hourly_distribution"
    /\ UNCHANGED scanVars
    /\ UNCHANGED <<logs, idx, valid_logs, summary, endpoint_stats,
                   performance_issues, hourly_distribution, top_users_by_requests,
                   cost_analysis, anomalies, result>>

HourlyDistribution ==
    /\ pc = "hourly_distribution"
    /\ hourly_distribution' = _hourly_distribution(valid_logs)
    /\ pc' = "top_users"
    /\ UNCHANGED scanVars
    /\ UNCHANGED <<logs, idx, valid_logs, summary, endpoint_stats,
                   performance_issues, recommendations, top_users_by_requests,
                   cost_analysis, anomalies, result>>

TopUsers ==
    /\ pc = "top_users"
    /\ top_users_by_requests' = _top_users(valid_logs, 5)
    /\ pc' = "cost_analysis"
    /\ UNCHANGED scanVars
    /\ UNCHANGED <<logs, idx, valid_logs, summary, endpoint_stats,
                   performance_issues, recommendations, hourly_distribution,
                   cost_analysis, anomalies, result>>

CostAnalysis ==
    /\ pc = "cost_analysis"
    /\ cost_analysis' = _cost_analysis(valid_logs, endpoint_stats)
    /\ pc' = "anomalies"
    /\ UNCHANGED scanVars
    /\ UNCHANGED <<logs, idx, valid_logs, summary, endpoint_stats,
                   performance_issues, recommendations, hourly_distribution,
                   top_users_by_requests, anomalies, result>>

Anomalies ==
    /\ pc = "anomalies"
    /\ anomalies' = _anomalies(valid_logs, endpoint_stats)
    /\ pc' = "return"
    /\ UNCHANGED scanVars
    /\ UNCHANGED <<logs, idx, valid_logs, summary, endpoint_stats,
                   performance_issues, recommendations, hourly_distribution,
                   top_users_by_requests, cost_analysis, result>>

Return ==
    /\ pc = "return"
    /\ result' = [ summary |-> summary,
                   endpoint_stats |-> endpoint_stats,
                   performance_issues |-> performance_issues,
                   recommendations |-> recommendations,
                   hourly_distribution |-> hourly_distribution,
                   top_users_by_requests |-> top_users_by_requests,
                   cost_analysis |-> cost_analysis,
                   anomalies |-> anomalies ]
    /\ pc' = "done"
    /\ UNCHANGED scanVars
    /\ UNCHANGED <<logs, idx, valid_logs, summary, endpoint_stats,
                   performance_issues, recommendations, hourly_distribution,
                   top_users_by_requests, cost_analysis, anomalies>>

Next ==
    \/ Validate
    \/ ValidateDone
    \/ CalcSummary
    \/ CalcEndpointStats
    \/ DetectPerformanceIssues
    \/ Recommendations
    \/ HourlyDistribution
    \/ TopUsers
    \/ CostAnalysis
    \/ Anomalies
    \/ Return

Spec == Init /\ [][Next]_vars

SpecValidate == InitValidate /\ [][Next]_vars

SpecOrder == InitOrder /\ [][Next]_vars

SpecSeverity == InitSeverity /\ [][Next]_vars

SpecErrors == InitErrors /\ [][Next]_vars

SpecSpike == InitSpike /\ [][Next]_vars

SpecUsers == InitUsers /\ [][Next]_vars

SpecTrend == InitTrend /\ [][Next]_vars

SpecDense == InitDense /\ [][Next]_vars

SpecSpread == InitSpread /\ [][Next]_vars

-----------------------------------------------------------------------------
(* sliding_window_counts statement by statement: the for loop over right,   *)
(* the while loop that advances left, the append.  Indices are 1-based      *)
(* (Python's 0-based left and right are sw_left - 1 and sw_right - 1), so   *)
(* the count right - left + 1 is the same number.                           *)

MaxScanLen == 4

\* Instants around the one-minute and the five-minute window edges.
ScanInstants == {0, 1, 60, 61, 300, 301}

\* The callers pass 5 (config.py); 1 makes the edge fall elsewhere.
ScanWindows == {1, REQUEST_SPIKE_WINDOW_MINUTES}

\* "timestamps must be sorted": the ascending lists.
SortedLists ==
    { ts \in SeqsUpTo(ScanInstants, MaxScanLen) :
        \A i \in 1..(Len(ts) - 1) : ts[i] <= ts[i + 1] }

\* The pipeline is not running while one scan is traced.
PipelineIdle ==
    /\ logs = << >>
    /\ pc = "idle"
    /\ idx = 1
    /\ valid_logs = << >>
    /\ summary = None
    /\ endpoint_stats = << >>
    /\ performance_issues = << >>
    /\ recommendations = << >>
    /\ hourly_distribution = << >>
    /\ top_users_by_requests = << >>
    /\ cost_analysis = None
    /\ anomalies = << >>
    /\ result = None

pipelineVars == <<logs, pc, idx, valid_logs, summary, endpoint_stats,
                  performance_issues, recommendations, hourly_distribution,
                  top_users_by_requests, cost_analysis, anomalies, result>>

\* counts = []; left = 0
InitScan ==
    /\ PipelineIdle
    /\ sw_timestamps \in SortedLists
    /\ sw_window_minutes \in ScanWindows
    /\ sw_left = 1
    /\ sw_right = 1
    /\ sw_window_start = 0
    /\ sw_counts = << >>
    /\ sw_pc = "for"

\* Mutant: a request exactly one window behind makes left advance.
WhileTest_Inclusive(timestamps, left, window_start) ==
    timestamps[left] <= window_start

\* while timestamps[left] < window_start
WhileTest(timestamps, left, window_start) ==
    timestamps[left] < window_start

\* for right in range(len(timestamps)): start_time, window_start
ScanFor ==
    /\ sw_pc = "for"
    /\ sw_right <= Len(sw_timestamps)
    /\ sw_window_start' =
           sw_timestamps[sw_right] - timedelta_minutes(sw_window_minutes)
    /\ sw_pc' = "while"
    /\ UNCHANGED <<sw_timestamps, sw_window_minutes, sw_left, sw_right, sw_counts>>
    /\ UNCHANGED pipelineVars

\* The while test holds: left += 1.  Reading timestamps[left] past the end
\* of the list raises IndexError.
ScanWhile ==
    /\ sw_pc = "while"
    /\ IF sw_left \notin DOMAIN sw_timestamps
       THEN /\ sw_pc' = "IndexError"
            /\ UNCHANGED sw_left
       ELSE /\ WhileTest(sw_timestamps, sw_left, sw_window_start)
            /\ sw_left' = sw_left + 1
            /\ UNCHANGED sw_pc
    /\ UNCHANGED <<sw_timestamps, sw_window_minutes, sw_right,
                   sw_window_start, sw_counts>>
    /\ UNCHANGED pipelineVars

\* The while test fails: counts.append((start_time, right - left + 1)).
ScanAppend ==
    /\ sw_pc = "while"
    /\ sw_left \in DOMAIN sw_timestamps
    /\ ~WhileTest(sw_timestamps, sw_left, sw_window_start)
    /\ sw_counts' = Append(sw_counts,
                       <<sw_timestamps[sw_right], sw_right - sw_left + 1>>)
    /\ sw_right' = sw_right + 1
    /\ sw_pc' = "for"
    /\ UNCHANGED <<sw_timestamps, sw_window_minutes, sw_left, sw_window_start>>
    /\ UNCHANGED pipelineVars

\* The range is exhausted: return counts.
ScanReturn ==
    /\ sw_pc = "for"
    /\ sw_right > Len(sw_timestamps)
    /\ sw_pc' = "done"
    /\ UNCHANGED <<sw_timestamps, sw_window_minutes, sw_left, sw_right,
                   sw_window_start, sw_counts>>
    /\ UNCHANGED pipelineVars

NextScan ==
    \/ ScanFor
    \/ ScanWhile
    \/ ScanAppend
    \/ ScanReturn

\* A call that has started runs to its return: the interpreter keeps
\* executing the next statement.
SpecScan == InitScan /\ [][NextScan]_vars /\ WF_vars(NextScan)

-----------------------------------------------------------------------------
(* Properties *)

Done == pc = "done"

\* What a raw record has to be to make a canonical request (spec 4.1),
\* stated on the raw record.
IsTimestamp(ts) ==
    Len(ts) = 3 /\ ts[1] \in 0..23 /\ ts[2] \in 0..59 /\ ts[3] \in 0..59

HasAllFields(entry) == Range(REQUIRED_FIELDS) \subseteq DOMAIN entry

WellFormed(entry) ==
    /\ HasAllFields(entry)
    /\ IsTimestamp(entry.timestamp)
    /\ entry.response_time_ms >= 0
    /\ entry.status_code >= 0
    /\ entry.request_size_bytes >= 0
    /\ entry.response_size_bytes >= 0
    /\ entry.endpoint # "" /\ entry.method # "" /\ entry.user_id # ""

\* The three kinds of bad record the claim names.
MissingOrMalformed(entry) ==
    \/ ~HasAllFields(entry)
    \/ ~IsTimestamp(entry.timestamp)
    \/ entry.response_time_ms < 0
    \/ entry.status_code < 0
    \/ entry.request_size_bytes < 0
    \/ entry.response_size_bytes < 0

\* The input with the records for which P fails taken out.
GoodOnly(ls) == SelectSeq(ls, WellFormed)

CountOf(s, P(_)) == Cardinality({ i \in DOMAIN s : P(s[i]) })

SumOf(s, F(_)) == SeqSum([i \in DOMAIN s |-> F(s[i])])

EmptyCost ==
    [ total_cost_usd |-> 0,
      cost_breakdown |-> [request_costs |-> 0, execution_costs |-> 0, memory_costs |-> 0],
      cost_by_endpoint |-> << >>,
      optimization_potential_usd |-> 0 ]

\* C2: with no valid record the report is well formed: zero totals, null
\* time range, every list empty, every cost 0.
C2_EmptyReport ==
    (Done /\ \A i \in DOMAIN logs : ~WellFormed(logs[i])) =>
        /\ result.summary = [ total_requests |-> 0,
                              time_range |-> [start |-> None, end |-> None],
                              avg_response_time_ms |-> 0,
                              error_rate_percentage |-> 0 ]
        /\ result.endpoint_stats = << >>
        /\ result.anomalies = << >>
        /\ result.performance_issues = << >>
        /\ result.recommendations = << >>
        /\ result.hourly_distribution = << >>
        /\ result.top_users_by_requests = << >>
        /\ result.cost_analysis = EmptyCost

\* A non-empty input of which every record is rejected.
C2_Witness ==
    /\ Done
    /\ Len(logs) = 2
    /\ \A i \in DOMAIN logs : ~WellFormed(logs[i])
    /\ result.summary.total_requests = 0
    /\ result.summary.time_range.start = None

ValidEndpoints(ls) == { ls[i].endpoint : i \in { j \in DOMAIN ls : WellFormed(ls[j]) } }

\* C3: endpoint_stats has exactly one entry per endpoint of the valid
\* records, and their request counts add up to summary.total_requests.
C3_EndpointCountsAddUp ==
    Done =>
        /\ { result.endpoint_stats[i].endpoint : i \in DOMAIN result.endpoint_stats }
              = ValidEndpoints(logs)
        /\ Len(result.endpoint_stats) = Cardinality(ValidEndpoints(logs))
        /\ SumOf(result.endpoint_stats, LAMBDA s : s.request_count)
              = result.summary.total_requests

\* Two endpoints, one of them hit twice.
C3_Witness ==
    /\ Done
    /\ Len(result.endpoint_stats) = 2
    /\ result.summary.total_requests = 3

\* The brackets of config.py that hold a size.
BracketsOf(size) ==
    { i \in DOMAIN MEMORY_COST_BRACKETS :
        MEMORY_COST_BRACKETS[i][1] <= size /\ size < MEMORY_COST_BRACKETS[i][2] }

\* C9: total_cost_usd is request_costs + execution_costs + memory_costs;
\* request cost is rate x valid requests, execution cost is rate x total
\* response time, memory cost adds each request's bracket cost, each size
\* lying in exactly one bracket.
C9_CostTotalIsSum ==
    Done =>
        LET good == GoodOnly(logs)
            cost == result.cost_analysis
        IN  /\ cost.total_cost_usd =
                  cost.cost_breakdown.request_costs
                  + cost.cost_breakdown.execution_costs
                  + cost.cost_breakdown.memory_costs
            /\ cost.cost_breakdown.request_costs = COST_PER_REQUEST_USD * Len(good)
            /\ cost.cost_breakdown.execution_costs =
                  COST_PER_MS_EXECUTION_USD * SumOf(good, LAMBDA l : l.response_time_ms)
            /\ \A i \in DOMAIN good :
                  Cardinality(BracketsOf(good[i].response_size_bytes)) = 1
            /\ cost.cost_breakdown.memory_costs =
                  SumOf(good, LAMBDA l :
                      MEMORY_COST_BRACKETS[CHOOSE b \in BracketsOf(l.response_size_bytes) : TRUE][3])

\* Requests in three different brackets, two of them on a bracket's bound.
C9_Witness ==
    /\ Done
    /\ { GoodOnly(logs)[i].response_size_bytes : i \in DOMAIN GoodOnly(logs) }
          = {0, 1024, 10240}
    /\ result.cost_analysis.cost_breakdown.memory_costs = 160

\* Requests of user u among the valid records.
UserCount(u) == CountOf(GoodOnly(logs), LAMBDA l : l.user_id = u)

ValidUsers == { GoodOnly(logs)[i].user_id : i \in DOMAIN GoodOnly(logs) }

\* Position of the first valid request of user u.
FirstSeen(u) ==
    CHOOSE i \in DOMAIN GoodOnly(logs) :
        /\ GoodOnly(logs)[i].user_id = u
        /\ \A j \in 1..(i - 1) : GoodOnly(logs)[j].user_id # u

UnusualFindings == SelectSeq(result.anomalies, LAMBDA a : a.type = "unusual_user_behavior")

\* C7: at most one unusual_user_behavior finding; there is one exactly when
\* some user has strictly more than half of the valid requests, it names
\* that user, and it is "high" when the share is strictly above 0.7 and
\* "medium" otherwise.
C7_UnusualUserShare ==
    Done =>
        LET total == Len(GoodOnly(logs))
            heavy == { u \in ValidUsers : 2 * UserCount(u) > total }
        IN  /\ Len(UnusualFindings) <= 1
            /\ Len(UnusualFindings) = 1 <=> heavy # {}
            /\ \A i \in DOMAIN UnusualFindings :
                  LET a == UnusualFindings[i] IN
                  /\ a.user_id \in heavy
                  /\ a.severity = IF 10 * UserCount(a.user_id) > 7 * total
                                  THEN "high" ELSE "medium"

\* A 60% share is reported as "medium"; a share of exactly one half of a
\* non-empty input reports nothing.
C7_Witness ==
    /\ Done
    /\ Len(logs) = 5
    /\ UserCount("u1") = 3
    /\ Len(UnusualFindings) = 1
    /\ UnusualFindings[1].severity = "medium"
    /\ UnusualFindings[1].share_percentage = 60000

TopUsers5 == result.top_users_by_requests

\* C10: top_users_by_requests lists min(5, distinct users) users with their
\* request counts, in non-increasing count order, no omitted user having
\* more requests than a listed one, equal counts in first-encounter order.
C10_TopUsersRanked ==
    Done =>
        /\ Len(TopUsers5) = Min(5, Cardinality(ValidUsers))
        /\ \A i \in DOMAIN TopUsers5 :
              /\ TopUsers5[i].user_id \in ValidUsers
              /\ TopUsers5[i].request_count = UserCount(TopUsers5[i].user_id)
        /\ \A i, j \in DOMAIN TopUsers5 :
              i < j =>
                 /\ TopUsers5[i].user_id # TopUsers5[j].user_id
                 /\ TopUsers5[i].request_count >= TopUsers5[j].request_count
                 /\ TopUsers5[i].request_count = TopUsers5[j].request_count
                       => FirstSeen(TopUsers5[i].user_id) < FirstSeen(TopUsers5[j].user_id)
        /\ \A u \in ValidUsers :
              (\A i \in DOMAIN TopUsers5 : TopUsers5[i].user_id # u)
                 => \A i \in DOMAIN TopUsers5 : UserCount(u) <= TopUsers5[i].request_count

\* Six users, one of them with two requests: five are listed, the user
\* with two requests first, one single-request user is left out.
C10_Witness ==
    /\ Done
    /\ Cardinality(ValidUsers) = 6
    /\ Len(TopUsers5) = 5
    /\ TopUsers5[1].request_count = 2
    /\ TopUsers5[2].request_count = 1
    /\ FirstSeen(TopUsers5[1].user_id) > FirstSeen(TopUsers5[2].user_id)

\* Every reordering of a list.
Perms(ls) ==
    { [i \in DOMAIN ls |-> ls[f[i]]] :
        f \in { g \in [DOMAIN ls -> DOMAIN ls] :
                  \A i, j \in DOMAIN ls : i # j => g[i] # g[j] } }

\* Instant of a raw timestamp that parses.
Instant(ts) == ts[1] * 3600 + ts[2] * 60 + ts[3]

\* Two valid requests of endpoint ep carry the same timestamp.
TiedTimestamps(ls, ep) ==
    \E i, j \in DOMAIN GoodOnly(ls) :
        /\ i # j
        /\ GoodOnly(ls)[i].endpoint = ep /\ GoodOnly(ls)[j].endpoint = ep
        /\ GoodOnly(ls)[i].timestamp = GoodOnly(ls)[j].timestamp

\* The report without what first-encounter order decides: the
\* most_common_status of each endpoint, who is listed in top_users (their
\* counts stay), the order of the anomalies, and the degradation finding of
\* an endpoint with tied timestamps.
OrderFree(r, ls) ==
    [ summary |-> r.summary,
      endpoint_stats |->
          [i \in DOMAIN r.endpoint_stats |->
              [f \in (DOMAIN r.endpoint_stats[i]) \ {"most_common_status"} |->
                  r.endpoint_stats[i][f]]],
      performance_issues |-> r.performance_issues,
      recommendations |-> r.recommendations,
      hourly_distribution |-> r.hourly_distribution,
      top_counts |-> [i \in DOMAIN r.top_users_by_requests |->
                         r.top_users_by_requests[i].request_count],
      cost_analysis |-> r.cost_analysis,
      anomalies |-> { r.anomalies[i] :
                        i \in { j \in DOMAIN r.anomalies :
                                  \/ r.anomalies[j].type # "response_time_degradation"
                                  \/ ~TiedTimestamps(ls, r.anomalies[j].endpoint) } } ]

IsBurst(ls) == ls \in SpikeLogs

\* C5: in the burst scenario the anomalies hold a request_spike finding of
\* the endpoint whose actual_rate counts the 15 requests of the burst.
C5_BurstIsReported ==
    (Done /\ IsBurst(logs)) =>
        \E i \in DOMAIN result.anomalies :
            /\ result.anomalies[i].type = "request_spike"
            /\ result.anomalies[i].endpoint = "/api/a"
            /\ result.anomalies[i].actual_rate >= 15

\* Failing requests of endpoint ep among the valid records.
ErrorsOf(ls, ep) ==
    SelectSeq(GoodOnly(ls), LAMBDA l :
        l.endpoint = ep /\ 400 <= l.status_code /\ l.status_code <= 599)

\* Failing requests of ep in the closed window [t - 5 minutes, t].
ErrorsWithin(ls, ep, t) ==
    Cardinality({ j \in DOMAIN ErrorsOf(ls, ep) :
        /\ t - 300 <= Instant(ErrorsOf(ls, ep)[j].timestamp)
        /\ Instant(ErrorsOf(ls, ep)[j].timestamp) <= t })

HasCluster(ls, ep) ==
    \E i \in DOMAIN ErrorsOf(ls, ep) :
        ErrorsWithin(ls, ep, Instant(ErrorsOf(ls, ep)[i].timestamp)) >= 10

ClustersOf(ep) ==
    SelectSeq(result.anomalies, LAMBDA a : a.type = "error_cluster" /\ a.endpoint = ep)

Level(sev) ==
    CASE sev = "none" -> 0
      [] sev = "medium" -> 1
      [] sev = "high" -> 2
      [] sev = "critical" -> 3

\* Severity that the report gives endpoint ep on one axis: the one of its
\* issue of that type, "none" without such an issue.
ReportedSeverity(ep, type) ==
    LET mine == SelectSeq(result.performance_issues,
                          LAMBDA x : x.type = type /\ x.endpoint = ep)
    IN  IF mine = << >> THEN "none" ELSE mine[1].severity

RtLevel(s) == Level(ReportedSeverity(s.endpoint, "slow_endpoint"))

ErrLevel(s) == Level(ReportedSeverity(s.endpoint, "high_error_rate"))

\* C8: on both axes the level never goes down when the value goes up, a
\* value above the critical threshold is critical, and a value equal to a
\* threshold stays below the level of that threshold.
C8_SeverityMonotonic ==
    Done =>
        LET stats == result.endpoint_stats IN
        /\ \A i, j \in DOMAIN stats :
              /\ stats[i].avg_response_time_ms <= stats[j].avg_response_time_ms
                    => RtLevel(stats[i]) <= RtLevel(stats[j])
              /\ stats[i].error_count * stats[j].request_count
                    <= stats[j].error_count * stats[i].request_count
                    => ErrLevel(stats[i]) <= ErrLevel(stats[j])
        /\ \A i \in DOMAIN stats :
              LET avg == stats[i].avg_response_time_ms
                  e == stats[i].error_count * 100
                  n == stats[i].request_count
              IN  /\ avg > 2000 * 1000 => RtLevel(stats[i]) = 3
                  /\ avg = 2000 * 1000 => RtLevel(stats[i]) < 3
                  /\ avg = 1000 * 1000 => RtLevel(stats[i]) < 2
                  /\ avg = 500 * 1000 => RtLevel(stats[i]) < 1
                  /\ e > 15 * n => ErrLevel(stats[i]) = 3
                  /\ e = 15 * n => ErrLevel(stats[i]) < 3
                  /\ e = 10 * n => ErrLevel(stats[i]) < 2
                  /\ e = 5 * n => ErrLevel(stats[i]) < 1

\* One endpoint exactly on the medium thresholds (500 ms, 5% errors) and
\* reported on neither axis, the other just above the critical ones.
C8_Witness ==
    /\ Done
    /\ Len(result.endpoint_stats) = 2
    /\ result.endpoint_stats[1].avg_response_time_ms = 500 * 1000
    /\ result.endpoint_stats[1].error_count = 1
    /\ RtLevel(result.endpoint_stats[1]) = 0
    /\ ErrLevel(result.endpoint_stats[1]) = 0
    /\ RtLevel(result.endpoint_stats[2]) = 3
    /\ ErrLevel(result.endpoint_stats[2]) = 3

\* The number of scanned items up to r that lie in the window ending at r.
InWindow(ts, w, r) ==
    Cardinality({ i \in 1..r : ts[i] >= ts[r] - 60 * w })

ScanCountsExact ==
    /\ Len(sw_counts) <= Len(sw_timestamps)
    /\ \A r \in DOMAIN sw_counts :
          sw_counts[r] = << sw_timestamps[r],
                           InWindow(sw_timestamps, sw_window_minutes, r) >>
    /\ sw_pc = "done" =>
          /\ Len(sw_counts) = Len(sw_timestamps)
          /\ sw_counts = sliding_window_counts(sw_timestamps, sw_window_minutes)

ScanInRange ==
    /\ sw_pc # "IndexError"
    /\ sw_left >= 1
    /\ sw_left <= sw_right
    /\ \A r \in DOMAIN sw_counts : sw_counts[r][2] >= 1

\* C11: on an ascending list the scan returns for every index r the pair
\* (t_r, number of i <= r with t_i >= t_r - window); while it runs the left
\* index never decreases and never passes the right index, so every count
\* is at least 1 and no read is out of range; and the scan returns.
C11_TwoPointerScan ==
    /\ [](ScanCountsExact /\ ScanInRange)
    /\ [][sw_left' >= sw_left]_vars
    /\ <>(sw_pc = "done")

\* A finished scan of three or more instants whose left index has moved and
\* that counted an instant lying exactly one window behind.
C11_Witness ==
    /\ sw_pc = "done"
    /\ Len(sw_timestamps) >= 3
    /\ sw_left > 1
    /\ \E r \in DOMAIN sw_counts :
          /\ sw_counts[r][2] >= 2
          /\ sw_timestamps[r - sw_counts[r][2] + 1]
                = sw_timestamps[r] - 60 * sw_window_minutes

\* Valid requests of endpoint ep, in input order.
RequestsOf(ls, ep) == SelectSeq(GoodOnly(ls), LAMBDA l : l.endpoint = ep)

\* Position (from 0) of request i of rs in time order, requests of one
\* instant in input order.
TimePosition(rs, i) ==
    Cardinality({ j \in DOMAIN rs :
        \/ Instant(rs[j].timestamp) < Instant(rs[i].timestamp)
        \/ Instant(rs[j].timestamp) = Instant(rs[i].timestamp) /\ j < i })

\* The requests at time positions floor(0.9 n) .. n - 1.
RecentOf(rs) ==
    SelectSeq([i \in DOMAIN rs |-> [rt |-> rs[i].response_time_ms,
                                    position |-> TimePosition(rs, i)]],
              LAMBDA x : x.position >= (9 * Len(rs)) \div 10)

RecentSum(rs) == SumOf(RecentOf(rs), LAMBDA x : x.rt)

TotalSum(rs) == SumOf(rs, LAMBDA l : l.response_time_ms)

\* recent mean > k x overall mean, in whole numbers.
RecentAbove(rs, k) ==
    RecentSum(rs) * Len(rs) > k * TotalSum(rs) * Len(RecentOf(rs))

Degraded(rs) ==
    /\ Len(rs) >= 5
    /\ RecentAbove(rs, 2)
    /\ RecentSum(rs) > 500 * Len(RecentOf(rs))

DegradationsOf(ep) ==
    SelectSeq(result.anomalies, LAMBDA a :
        a.type = "response_time_degradation" /\ a.endpoint = ep)

\* C12: an endpoint gets a response_time_degradation finding exactly when
\* it has at least 5 valid requests and the mean response time of those at
\* time positions floor(0.9 n) .. n - 1 is strictly above both twice the
\* mean of all n and 500 ms; the finding is "high" when that recent mean is
\* above 3 times the overall mean and "medium" otherwise; an endpoint with
\* fewer than 5 requests gets none.
C12_Degradation ==
    Done =>
        /\ \A i \in DOMAIN result.anomalies :
              result.anomalies[i].type = "response_time_degradation"
                 => result.anomalies[i].endpoint \in ValidEndpoints(logs)
        /\ \A ep \in ValidEndpoints(logs) :
              LET rs == RequestsOf(logs, ep)
                  found == DegradationsOf(ep)
              IN  /\ Len(RecentOf(rs)) >= 1
                  /\ Len(found) = IF Degraded(rs) THEN 1 ELSE 0
                  /\ Len(rs) < 5 => found = << >>
                  /\ \A k \in DOMAIN found :
                        found[k].severity =
                            IF RecentAbove(rs, 3) THEN "high" ELSE "medium"

\* Eleven requests whose last two are the recent ones, their mean exactly
\* 3 times the overall mean or less: a "medium" finding; and the four slow
\* requests of the second endpoint give none.
C12_Witness ==
    /\ Done
    /\ Len(RequestsOf(logs, "/api/a")) = 11
    /\ Len(RecentOf(RequestsOf(logs, "/api/a"))) = 2
    /\ Len(RequestsOf(logs, "/api/b")) = 4
    /\ Len(DegradationsOf("/api/a")) = 1
    /\ DegradationsOf("/api/a")[1].severity = "medium"
    /\ DegradationsOf("/api/b") = << >>

ErrorClusters == SelectSeq(result.anomalies, LAMBDA a : a.type = "error_cluster")

SpikesOf(ep) ==
    SelectSeq(result.anomalies, LAMBDA a : a.type = "request_spike" /\ a.endpoint = ep)

InstantsOf(ls, ep) ==
    { Instant(RequestsOf(ls, ep)[i].timestamp) : i \in DOMAIN RequestsOf(ls, ep) }

\* Seconds between the first and the last valid request of ep.
SpanOf(ls, ep) ==
    LET ts == InstantsOf(ls, ep)
    IN  (CHOOSE t \in ts : \A u \in ts : u <= t) - (CHOOSE t \in ts : \A u \in ts : t <= u)

\* 3 x normal_rate as the fraction <<p, q>>: normal_rate is the number of
\* requests over max(1, whole minutes of the span, at least 1, over 5).
SpikeThreshold(ls, ep) ==
    LET n == Len(RequestsOf(ls, ep))
        minutes == Max(1, SpanOf(ls, ep) \div 60)
    IN  IF minutes <= 5 THEN <<3 * n, 1>> ELSE <<15 * n, minutes>>

\* Valid requests of ep in the five minutes up to t, both ends included.
RequestsWithin(ls, ep, t) ==
    Cardinality({ i \in DOMAIN RequestsOf(ls, ep) :
        /\ t - 300 <= Instant(RequestsOf(ls, ep)[i].timestamp)
        /\ Instant(RequestsOf(ls, ep)[i].timestamp) <= t })

C15_NoSpikeUnderSixteenMinutes ==
    Done =>
        /\ \A i \in DOMAIN result.anomalies :
              result.anomalies[i].type = "request_spike"
                 => result.anomalies[i].endpoint \in ValidEndpoints(logs)
        /\ \A ep \in ValidEndpoints(logs) :
              /\ Len(SpikesOf(ep)) <= 1
              /\ SpanOf(logs, ep) < 16 * 60 => SpikesOf(ep) = << >>

\* Seventeen or more requests spanning 15 minutes 59 seconds, all but two
\* of them within five minutes: no finding.
C15_Witness ==
    /\ Done
    /\ Len(RequestsOf(logs, "/api/a")) >= 17
    /\ SpanOf(logs, "/api/a") = 15 * 60 + 59
    /\ \E t \in InstantsOf(logs, "/api/a") :
          RequestsWithin(logs, "/api/a", t) >= Len(RequestsOf(logs, "/api/a")) - 2
    /\ SpikesOf("/api/a") = << >>

====
